---- MODULE Spec2Model ----
(***************************************************************************)
(* State-transition core of the consensus client: validator slashing,      *)
(* attestation (Casper FFG) validation, sync-aggregate processing and the  *)
(* custom reward engine.                                                   *)
(*                                                                         *)
(* Amounts are in units of 1000 Gwei (the reward table's top entry,        *)
(* 2_600_000_000 Gwei, does not fit the checker's integers); every amount  *)
(* of the source is a multiple of 1000 Gwei.  The 64-bit width of balances *)
(* and epochs is kept as MaxU64, the largest representable value: checked  *)
(* arithmetic fails above it, saturating arithmetic clamps at it.          *)
(* Validator indices are 0-based as in the source.                         *)
(***************************************************************************)
EXTENDS Integers, FiniteSets, Sequences, TLC

VARIABLES state, chain_spec, last, calls, snapshot

vars == <<state, chain_spec, last, calls, snapshot>>

(***************************************************************************)
(* Bounds of the model.                                                    *)
(***************************************************************************)
MaxU64 == 1000000000
EpochsPerSlashingsVector == 4
MaxValidators == 3
SlotsPerEpoch == 2
SyncCommitteeSize == 2
MaxCalls == 2

FarFutureEpoch == MaxU64

\* Option<T>.
None == {}
Some(x) == {x}

\* The answer of a state lookup that may fail.
Found(v) == [ok |-> TRUE, val |-> v]
NotFound == [ok |-> FALSE, val |-> 0]

(***************************************************************************)
(* Checked and saturating 64-bit arithmetic (safe_arith, u64::saturating). *)
(***************************************************************************)
Max(a, b) == IF a >= b THEN a ELSE b

ArithOk(v) == [ok |-> TRUE, val |-> v]
ArithErr == [ok |-> FALSE, val |-> 0]

safe_add(a, b) == IF a + b > MaxU64 THEN ArithErr ELSE ArithOk(a + b)

safe_div(a, b) == IF b = 0 THEN ArithErr ELSE ArithOk(a \div b)

saturating_add(a, b) == IF a + b > MaxU64 THEN MaxU64 ELSE a + b

saturating_sub(a, b) == IF b > a THEN 0 ELSE a - b

saturating_mul(a, b) == IF b # 0 /\ a > MaxU64 \div b THEN MaxU64 ELSE a * b

(***************************************************************************)
(* BeaconState accessors.                                                  *)
(***************************************************************************)
NumValidators(s) == Cardinality(DOMAIN s.validators)

current_epoch(s) == s.slot \div SlotsPerEpoch

start_slot(epoch) == saturating_mul(epoch, SlotsPerEpoch)

previous_epoch(s) == IF current_epoch(s) >= 1 THEN current_epoch(s) - 1 ELSE current_epoch(s)

min_slashing_penalty_quotient_for_state(spec, s) == spec.min_slashing_penalty_quotient

(***************************************************************************)
(* Balance ledger primitives.  A result is the new state and Ok or the     *)
(* error kind.                                                             *)
(***************************************************************************)
Ret(s, r) == [state |-> s, result |-> r]

decrease_balance(s, index, delta) ==
    IF index \notin DOMAIN s.balances
    THEN Ret(s, "BalancesOutOfBounds")
    ELSE Ret([s EXCEPT !.balances[index] = saturating_sub(@, delta)], "Ok")

increase_balance(s, index, delta) ==
    IF index \notin DOMAIN s.balances
    THEN Ret(s, "BalancesOutOfBounds")
    ELSE Ret([s EXCEPT !.balances[index] = saturating_add(@, delta)], "Ok")

(***************************************************************************)
(* Cache notifications at the end of slash_validator.  The caches are      *)
(* external collaborators: cache_ok says whether they accept the           *)
(* notification; the slashings cache then records the index.               *)
(***************************************************************************)
record_validator_slashing(s, slashed_index, cache_ok) ==
    IF cache_ok
    THEN Ret([s EXCEPT !.slashings_cache = @ \cup {slashed_index}], "Ok")
    ELSE Ret(s, "CacheError")

(***************************************************************************)
(* slash_validator: the statements of the source in order; an error        *)
(* returns at once with whatever was written before it.                    *)
(***************************************************************************)
\* The guard against slashing a validator twice.
already_slashed_unguarded(validator) == FALSE

already_slashed(validator) == validator.slashed

\* max(validator.withdrawable_epoch, epoch + EpochsPerSlashingsVector + 1)
extended_withdrawable_epoch_overwritten(withdrawable_epoch, earliest) == earliest

extended_withdrawable_epoch(withdrawable_epoch, earliest) ==
    Max(withdrawable_epoch, earliest)

\* epoch.as_usize() % EpochsPerSlashingsVector
slashings_index_first_bucket(epoch) == 0

slashings_index_of(epoch) == epoch % EpochsPerSlashingsVector

\* effective_balance.safe_div(min_slashing_penalty_quotient)
slashing_penalty_rounded_up(effective_balance, quotient) ==
    IF quotient = 0 THEN ArithErr
    ELSE ArithOk((effective_balance + quotient - 1) \div quotient)

slashing_penalty(effective_balance, quotient) == safe_div(effective_balance, quotient)

\* The account decrease_balance debits: the slashed validator's own, whoever
\* reported the offence.
penalised_index_whistleblower(slashed_index, opt_whistleblower_index) ==
    IF opt_whistleblower_index = None THEN slashed_index
    ELSE CHOOSE w \in opt_whistleblower_index : TRUE

penalised_index(slashed_index, opt_whistleblower_index) == slashed_index

slash_validator(s, slashed_index, opt_whistleblower_index, cache_ok, spec) ==
    LET epoch == current_epoch(s) IN
    IF slashed_index \notin DOMAIN s.validators
    THEN Ret(s, "UnknownValidator")
    ELSE IF already_slashed(s.validators[slashed_index])
    THEN Ret(s, "ValidatorIsWithdrawable")
    ELSE
      LET s1 == [s EXCEPT !.validators[slashed_index].slashed = TRUE]
          e1 == safe_add(epoch, EpochsPerSlashingsVector)
          e2 == IF e1.ok THEN safe_add(e1.val, 1) ELSE ArithErr
      IN
      IF ~e2.ok THEN Ret(s1, "ArithError")
      ELSE
        LET s2 == [s1 EXCEPT !.validators[slashed_index].withdrawable_epoch =
                                extended_withdrawable_epoch(@, e2.val)]
            effective_balance == s2.validators[slashed_index].effective_balance
            slashings_index == slashings_index_of(epoch)
            sum == safe_add(s2.slashings[slashings_index], effective_balance)
        IN
        IF ~sum.ok THEN Ret(s2, "ArithError")
        ELSE
          LET s3 == [s2 EXCEPT !.slashings[slashings_index] = sum.val]
              penalty == slashing_penalty(effective_balance,
                                          min_slashing_penalty_quotient_for_state(spec, s3))
          IN
          IF ~penalty.ok THEN Ret(s3, "ArithError")
          ELSE
            LET d == decrease_balance(s3, penalised_index(slashed_index, opt_whistleblower_index),
                                      penalty.val) IN
            IF d.result # "Ok" THEN d
            ELSE record_validator_slashing(d.state, slashed_index, cache_ok)

(***************************************************************************)
(* Attestation validation.  A verdict is Ok or an error kind with the      *)
(* values the error carries.  env holds the answers of the committee       *)
(* resolution and of the indexed-attestation check, which are external     *)
(* primitives; overflow_checks tells whether the build aborts on integer   *)
(* overflow (debug) or wraps (release).                                    *)
(***************************************************************************)
AttOk == [kind |-> "Ok"]

TargetEpochIncorrect(target_epoch, cur) ==
    [kind |-> "TargetEpochIncorrect", target_epoch |-> target_epoch, current_epoch |-> cur]

SourceEpochIncorrect(source, target_epoch, expected_source) ==
    [kind |-> "SourceEpochIncorrect", source |-> source,
     target_epoch |-> target_epoch, expected_source |-> expected_source]

expected_source_for(s, data) ==
    IF data.target.epoch = current_epoch(s)
    THEN s.current_justified_checkpoint
    ELSE s.previous_justified_checkpoint

\* `a + b` on u64: aborts when overflow checks are compiled in, wraps otherwise.
unchecked_add(a, b, overflow_checks) ==
    IF a + b > MaxU64
    THEN IF overflow_checks THEN [panic |-> TRUE, val |-> 0]
         ELSE [panic |-> FALSE, val |-> (a + b) % (MaxU64 + 1)]
    ELSE [panic |-> FALSE, val |-> a + b]

\* The target epoch is the state's current or previous epoch.
target_epoch_in_window_or_next(data, s) ==
    \/ data.target.epoch = current_epoch(s)
    \/ data.target.epoch = previous_epoch(s)
    \/ data.target.epoch = current_epoch(s) + 1

target_epoch_in_window(data, s) ==
    ~(data.target.epoch # current_epoch(s) /\ data.target.epoch # previous_epoch(s))

verify_casper_ffg_vote(data, s, overflow_checks) ==
    IF ~target_epoch_in_window(data, s)
    THEN TargetEpochIncorrect(data.target.epoch, current_epoch(s))
    ELSE
      LET expected_source == expected_source_for(s, data)
          drift == unchecked_add(data.source.epoch, 2, overflow_checks)
      IN
      IF drift.panic THEN [kind |-> "Panic"]
      ELSE IF drift.val < expected_source.epoch
      THEN SourceEpochIncorrect(data.source, data.target.epoch, expected_source)
      ELSE AttOk

\* ctxt.get_indexed_attestation followed by is_valid_indexed_attestation.
indexed_attestation_check(env) ==
    IF env.indexed = "Ok" THEN AttOk ELSE [kind |-> env.indexed]

\* The entry point with its source/target comparison placed after the FFG check.
verify_attestation_for_block_inclusion_ffg_first(s, data, env, overflow_checks) ==
    LET ffg == verify_casper_ffg_vote(data, s, overflow_checks) IN
    IF ffg.kind # "Ok" THEN ffg
    ELSE IF data.source.epoch > data.target.epoch
    THEN SourceEpochIncorrect(data.source, data.target.epoch, expected_source_for(s, data))
    ELSE indexed_attestation_check(env)

verify_attestation_for_block_inclusion(s, data, env, overflow_checks) ==
    IF data.source.epoch > data.target.epoch
    THEN SourceEpochIncorrect(data.source, data.target.epoch, expected_source_for(s, data))
    ELSE
      LET ffg == verify_casper_ffg_vote(data, s, overflow_checks) IN
      IF ffg.kind # "Ok" THEN ffg
      ELSE indexed_attestation_check(env)

verify_attestation_for_state(s, data, env, overflow_checks) ==
    IF ~env.committees_per_slot.ok THEN [kind |-> "BeaconStateError"]
    ELSE IF data.index >= env.committees_per_slot.val
    THEN TargetEpochIncorrect(data.target.epoch, current_epoch(s))
    ELSE IF ~env.committee_len.ok THEN [kind |-> "BeaconStateError"]
    ELSE IF ~(env.committee_len.val > 0)
    THEN TargetEpochIncorrect(data.target.epoch, current_epoch(s))
    ELSE
      LET ffg == verify_casper_ffg_vote(data, s, overflow_checks) IN
      IF ffg.kind # "Ok" THEN ffg
      ELSE indexed_attestation_check(env)

(***************************************************************************)
(* Reward engine (rewards.rs).  Amounts in units of 1000 Gwei.             *)
(***************************************************************************)
VALIDATOR_REWARD_PERCENTAGE == 70
GRIDBOX_REWARD_PERCENTAGE == 20
MARKETING_REWARD_PERCENTAGE == 10

GRIDBOX_ADDRESS_INDEX == 0
MARKETING_ADDRESS_INDEX == 1

RewardConfigDefault ==
    [proposer_reward_initial |-> 2600000,
     attestation_reward_initial |-> 100,
     sync_committee_reward_initial |-> 100]

\* The rows of the if / else-if chain: <<last epoch of the row, proposer reward>>.
ProposerRewardTable ==
    << <<25200, 2600000>>, <<100800, 2100000>>, <<176400, 1700000>>,
       <<252000, 1300000>>, <<327600, 1100000>>, <<403200, 1000000>>,
       <<478800, 900000>>, <<554400, 750000>>, <<630000, 650000>>,
       <<705600, 650000>>, <<781200, 600000>>, <<856800, 550000>>,
       <<932400, 500000>>, <<1008000, 450000>>, <<1083600, 400000>>,
       <<1159200, 350000>>, <<1234800, 300000>>, <<1310400, 250000>>,
       <<1386000, 200000>>, <<1461600, 150000>>, <<1537200, 100000>>,
       <<1612800, 50000>>, <<1688400, 45000>>, <<1764000, 40000>>,
       <<1839600, 35000>>, <<1915200, 30000>>, <<1990800, 25000>>,
       <<2066400, 20000>>, <<2142000, 15000>>, <<2217600, 10000>>,
       <<2293200, 5000>> >>

RECURSIVE proposer_reward_from(_, _)
proposer_reward_from(ep, row) ==
    IF row > Len(ProposerRewardTable) THEN 0
    ELSE IF ep <= ProposerRewardTable[row][1] THEN ProposerRewardTable[row][2]
    ELSE proposer_reward_from(ep, row + 1)

calculate_reward_amounts_growing_with_epoch(epoch, config) ==
    [proposer_reward |-> proposer_reward_from(epoch, 1),
     attestation_reward |-> saturating_add(config.attestation_reward_initial, epoch),
     sync_committee_reward |-> config.sync_committee_reward_initial]

calculate_reward_amounts(epoch, config) ==
    [proposer_reward |-> proposer_reward_from(epoch, 1),
     attestation_reward |-> config.attestation_reward_initial,
     sync_committee_reward |-> config.sync_committee_reward_initial]

validator_share(reward_amount) ==
    saturating_mul(reward_amount, VALIDATOR_REWARD_PERCENTAGE) \div 100

dev_share(reward_amount) ==
    saturating_mul(reward_amount, GRIDBOX_REWARD_PERCENTAGE) \div 100

charity_share(reward_amount) ==
    saturating_mul(reward_amount, MARKETING_REWARD_PERCENTAGE) \div 100

\* `*balance = balance.saturating_add(amount)` behind `if let Ok(balance) = get_balance_mut(index)`.
credit(s, index, amount) ==
    IF index \in DOMAIN s.balances
    THEN [s EXCEPT !.balances[index] = saturating_add(@, amount)]
    ELSE s

\* The tail shared by the three apply functions: the two fee sinks.
credit_sinks(s, dev_amount, charity_amount) ==
    IF GRIDBOX_ADDRESS_INDEX \notin DOMAIN s.balances
    THEN Ret(s, "Failed to get dev address balance")
    ELSE
      LET s1 == credit(s, GRIDBOX_ADDRESS_INDEX, dev_amount) IN
      IF MARKETING_ADDRESS_INDEX \notin DOMAIN s1.balances
      THEN Ret(s1, "Failed to get charity address balance")
      ELSE Ret(credit(s1, MARKETING_ADDRESS_INDEX, charity_amount), "Ok")

apply_proposer_reward_opening_account(s, proposer_index, reward_amount) ==
    IF reward_amount = 0 THEN Ret(s, "Ok")
    ELSE Ret([s EXCEPT !.balances = (proposer_index :> validator_share(reward_amount)) @@ @], "Ok")

apply_proposer_reward(s, proposer_index, reward_amount) ==
    IF reward_amount = 0 THEN Ret(s, "Ok")
    ELSE IF proposer_index \notin DOMAIN s.balances
    THEN Ret(s, "Failed to get proposer balance")
    ELSE credit_sinks(credit(s, proposer_index, validator_share(reward_amount)),
                      dev_share(reward_amount), charity_share(reward_amount))

is_active_at_through_exit_epoch(v, epoch) ==
    v.activation_epoch <= epoch /\ epoch <= v.exit_epoch

is_active_at(v, epoch) == v.activation_epoch <= epoch /\ epoch < v.exit_epoch

is_exited_at(v, epoch) == v.exit_epoch <= epoch

is_withdrawable_at(v, epoch) == epoch >= v.withdrawable_epoch

\* Indices with a non-zero byte in a participation list (none when the
\* state's fork has no participation lists).
participants(list) ==
    IF list.ok THEN {i \in DOMAIN list.val : list.val[i] > 0} ELSE {}

collect_attesting_validators_no_fallback(s) ==
    participants(s.previous_epoch_participation)
      \cup participants(s.current_epoch_participation)

collect_attesting_validators(s) ==
    LET flagged == participants(s.previous_epoch_participation)
                     \cup participants(s.current_epoch_participation)
    IN IF flagged = {}
       THEN {i \in DOMAIN s.validators : is_active_at(s.validators[i], current_epoch(s))}
       ELSE flagged

\* Credits `amount` to each index of the sequence `indices`, in order,
\* skipping indices without a balance.
RECURSIVE credit_each(_, _, _)
credit_each(s, indices, amount) ==
    IF indices = <<>> THEN s
    ELSE credit_each(credit(s, Head(indices), amount), Tail(indices), amount)

apply_attestation_rewards_sinks_credited_once(s, reward_amount, order) ==
    IF reward_amount = 0 THEN Ret(s, "Ok")
    ELSE credit_sinks(credit_each(s, order, validator_share(reward_amount)),
                      dev_share(reward_amount), charity_share(reward_amount))

apply_attestation_rewards(s, reward_amount, order) ==
    IF reward_amount = 0 THEN Ret(s, "Ok")
    ELSE
      LET n == Len(order)
          total_dev_reward == saturating_mul(dev_share(reward_amount), n)
          total_charity_reward == saturating_mul(charity_share(reward_amount), n)
      IN credit_sinks(credit_each(s, order, validator_share(reward_amount)),
                      total_dev_reward, total_charity_reward)

\* pubkey -> validator index lookup: the indices holding the key, at most one.
get_validator_index(s, pubkey) ==
    {i \in DOMAIN s.validators : s.validators[i].pubkey = pubkey}

\* The validator indices of the seats in `seats` (a sequence of seat
\* numbers), in seat order, seats with an unknown key dropped.
RECURSIVE seat_indices(_, _, _)
seat_indices(s, pubkeys, seats) ==
    IF seats = <<>> THEN <<>>
    ELSE LET found == get_validator_index(s, pubkeys[Head(seats)])
             rest == seat_indices(s, pubkeys, Tail(seats))
         IN IF found = {} THEN rest
            ELSE <<CHOOSE i \in found : TRUE>> \o rest

\* The seat numbers i..n-1 that are in `kept`, in increasing order.
RECURSIVE seats_from(_, _, _)
seats_from(i, n, kept) ==
    IF i >= n THEN <<>>
    ELSE (IF i \in kept THEN <<i>> ELSE <<>>) \o seats_from(i + 1, n, kept)

apply_sync_committee_rewards(s, sync_aggregate, reward_amount) ==
    IF reward_amount = 0 THEN Ret(s, "Ok")
    ELSE
      LET committee == s.current_sync_committee
          set_bits == {i \in DOMAIN sync_aggregate.sync_committee_bits :
                         sync_aggregate.sync_committee_bits[i]}
          seats == IF committee.ok
                   THEN seats_from(0, Cardinality(DOMAIN committee.val), set_bits)
                   ELSE <<>>
          sync_committee_indices ==
              IF committee.ok THEN seat_indices(s, committee.val, seats) ELSE <<>>
          n == Len(sync_committee_indices)
          total_dev_reward == saturating_mul(dev_share(reward_amount), n)
          total_charity_reward == saturating_mul(charity_share(reward_amount), n)
      IN credit_sinks(credit_each(s, sync_committee_indices, validator_share(reward_amount)),
                      total_dev_reward, total_charity_reward)

apply_all_rewards(s, proposer_index, sync_aggregate_opt, epoch, config, order) ==
    LET reward_amounts == calculate_reward_amounts(epoch, config)
        s1 == apply_proposer_reward(s, proposer_index, reward_amounts.proposer_reward).state
        s2 == apply_attestation_rewards(s1, reward_amounts.attestation_reward, order).state
        s3 == IF sync_aggregate_opt = None THEN s2
              ELSE apply_sync_committee_rewards(
                       s2, CHOOSE a \in sync_aggregate_opt : TRUE,
                       reward_amounts.sync_committee_reward).state
    IN Ret(s3, "Ok")

(***************************************************************************)
(* Epoch reward pass (per_epoch_processing/base/rewards_and_penalties.rs). *)
(***************************************************************************)
\* The active validator indices in increasing order, from index i on.
RECURSIVE active_from(_, _, _)
active_from(s, epoch, i) ==
    IF i >= NumValidators(s) THEN <<>>
    ELSE (IF is_active_at(s.validators[i], epoch) THEN <<i>> ELSE <<>>)
           \o active_from(s, epoch, i + 1)

\* Proposer selection: a seed-derived pick among the active validators,
\* failing when there is none.
get_beacon_proposer_index(s, slot) ==
    LET active == active_from(s, current_epoch(s), 0) IN
    IF active = <<>> THEN NotFound
    ELSE Found(active[((s.seed + slot) % Len(active)) + 1])

\* increase_balance for each index of `indices` in order, stopping at the
\* first error.
RECURSIVE increase_each(_, _, _)
increase_each_failing_at_limit(s, indices, amount) ==
    IF indices = <<>> THEN Ret(s, "Ok")
    ELSE IF Head(indices) \in DOMAIN s.balances
            /\ s.balances[Head(indices)] + amount > MaxU64
    THEN Ret(s, "ArithError")
    ELSE LET r == increase_balance(s, Head(indices), amount) IN
         IF r.result # "Ok" THEN r
         ELSE increase_each(r.state, Tail(indices), amount)

increase_each(s, indices, amount) ==
    IF indices = <<>> THEN Ret(s, "Ok")
    ELSE LET r == increase_balance(s, Head(indices), amount) IN
         IF r.result # "Ok" THEN r
         ELSE increase_each(r.state, Tail(indices), amount)

\* The proposer loop from slot offset i on.
RECURSIVE reward_proposers(_, _, _, _)
reward_proposers_first_slot_only(s, epoch_start_slot, i, proposer_reward) ==
    LET proposer == get_beacon_proposer_index(s, saturating_add(epoch_start_slot, i)) IN
    IF proposer.ok /\ proposer_reward > 0
    THEN increase_balance(s, proposer.val, proposer_reward)
    ELSE Ret(s, "Ok")

reward_proposers(s, epoch_start_slot, i, proposer_reward) ==
    IF i >= SlotsPerEpoch THEN Ret(s, "Ok")
    ELSE
      LET slot == saturating_add(epoch_start_slot, i)
          proposer == get_beacon_proposer_index(s, slot)
      IN
      IF proposer.ok /\ proposer_reward > 0
      THEN LET r == increase_balance(s, proposer.val, proposer_reward) IN
           IF r.result # "Ok" THEN r
           ELSE reward_proposers(r.state, epoch_start_slot, i + 1, proposer_reward)
      ELSE reward_proposers(s, epoch_start_slot, i + 1, proposer_reward)

process_rewards_and_penalties(s, order) ==
    LET epoch == current_epoch(s)
        reward_amounts == calculate_reward_amounts(epoch, RewardConfigDefault)
        p == reward_proposers(s, start_slot(epoch), 0, reward_amounts.proposer_reward)
    IN
    IF p.result # "Ok" THEN p
    ELSE
      LET a == IF reward_amounts.attestation_reward > 0
               THEN increase_each(p.state, order, reward_amounts.attestation_reward)
               ELSE p
      IN
      IF a.result # "Ok" THEN a
      ELSE IF reward_amounts.sync_committee_reward > 0
      THEN LET committee == a.state.current_sync_committee
               sync_committee_validators ==
                   IF committee.ok
                   THEN seat_indices(a.state, committee.val,
                                     seats_from(0, Cardinality(DOMAIN committee.val),
                                                DOMAIN committee.val))
                   ELSE <<>>
           IN increase_each(a.state, sync_committee_validators,
                            reward_amounts.sync_committee_reward)
      ELSE a

(***************************************************************************)
(* Sync-committee processor (per_block_processing/altair/sync_committee.rs)*)
(***************************************************************************)
\* Block root of an earlier slot: there is none for the state's own slot.
get_block_root(s, slot) == IF slot < s.slot THEN Found("root") ELSE NotFound

is_zero(bits) == \A i \in DOMAIN bits : ~bits[i]

\* None for the empty aggregate (no bit set, signature at infinity);
\* otherwise the signature set, or an error when the state has no sync
\* committee or a participant's key does not decompress.
sync_aggregate_signature_set(aggregate, s) ==
    IF is_zero(aggregate.sync_committee_bits) /\ aggregate.signature = "infinity"
    THEN Found(None)
    ELSE IF ~s.current_sync_committee.ok THEN NotFound
    ELSE Found(Some(aggregate.signature))

\* signature_set.map_or(false, |signature| !signature.verify()): an absent
\* set never fails; a set fails unless its signature verifies.
signature_check_fails_map_or_true(signature_set) == signature_set # Some("valid")

signature_check_fails(signature_set) ==
    signature_set # None /\ signature_set # Some("valid")

process_sync_aggregate_paying_proposer(s, aggregate, proposer_index, verify_signatures) ==
    Ret(increase_balance(s, proposer_index, 1).state, "Ok")

process_sync_aggregate(s, aggregate, proposer_index, verify_signatures) ==
    IF verify_signatures
    THEN
      LET previous_slot == saturating_sub(s.slot, 1)
          previous_block_root == get_block_root(s, previous_slot)
      IN
      IF ~previous_block_root.ok THEN Ret(s, "BeaconStateError")
      ELSE
        LET signature_set == sync_aggregate_signature_set(aggregate, s) IN
        IF ~signature_set.ok THEN Ret(s, "SignatureSetError")
        ELSE IF signature_check_fails(signature_set.val)
        THEN Ret(s, "SignatureInvalid")
        ELSE Ret(s, "Ok")
    ELSE Ret(s, "Ok")

(***************************************************************************)
(* Initial states.                                                         *)
(***************************************************************************)
Validator(eb, act, exit, wd) ==
    [effective_balance |-> eb, slashed |-> FALSE,
     activation_epoch |-> act, exit_epoch |-> exit, withdrawable_epoch |-> wd]

Checkpoint(e, r) == [epoch |-> e, root |-> r]

Account(v, b) == [validator |-> v, balance |-> b]

\* A validator record with its balance: an active validator with a full
\* balance, an exited one with a small odd effective balance and a balance
\* below its slashing penalty, and Validator::default() holding the largest
\* balance.
ActiveAccount == Account(Validator(32000000, 0, FarFutureEpoch, FarFutureEpoch), 32000000)

ExitedAccount == Account(Validator(7, 0, 2, 3), 1)

DefaultAccount == Account(Validator(MaxU64, MaxU64, MaxU64, MaxU64), MaxU64)

\* n accounts, of the three kinds in turn, starting with kind r.
RotatedAccounts(n, r) ==
    [i \in 0..(n - 1) |-> IF (i + r) % 3 = 0 THEN ActiveAccount
                          ELSE IF (i + r) % 3 = 1 THEN ExitedAccount ELSE DefaultAccount]

MixedAccounts(n) == RotatedAccounts(n, 0)

\* The genesis slot, the second slot of epoch 5 and the last slot there is.
SlotChoices == {0, start_slot(5) + 1, MaxU64}

QuotientChoices == {0, 3, 64}

SlashingsChoices == {0, MaxU64 - 32000000}

ValidatorCounts == {1, MaxValidators}

GenesisState(accounts, slot, sl) ==
    [validators |-> [i \in DOMAIN accounts |-> accounts[i].validator @@ [pubkey |-> i]],
     balances |-> [i \in DOMAIN accounts |-> accounts[i].balance],
     slashings |-> [b \in 0..(EpochsPerSlashingsVector - 1) |-> sl],
     slashings_cache |-> {},
     slot |-> slot,
     fork |-> "Altair",
     seed |-> 0,
     previous_epoch_participation |-> Found([i \in DOMAIN accounts |-> 0]),
     current_epoch_participation |-> Found([i \in DOMAIN accounts |-> 0]),
     current_sync_committee |-> Found([seat \in 0..(SyncCommitteeSize - 1) |-> 0]),
     current_justified_checkpoint |-> Checkpoint(0, "rA"),
     previous_justified_checkpoint |-> Checkpoint(0, "rA")]

NoCall == [op |-> "none", result |-> "Ok"]

InitSlash ==
    /\ \E n \in ValidatorCounts, r \in 0..2, slot \in SlotChoices, sl \in SlashingsChoices :
         state = GenesisState(RotatedAccounts(n, r), slot, sl)
    /\ chain_spec \in [min_slashing_penalty_quotient : QuotientChoices]
    /\ last = NoCall
    /\ calls = 0
    /\ snapshot = state

Roots == {"rA", "rB"}

JustifiedEpochChoices == {0, 4}


SourceEpochChoices == {0, 1, 2, 4, 6, MaxU64}

TargetEpochChoices == {0, 4, 5, 6, MaxU64}

AttestationDataChoices ==
    { [slot |-> 0, index |-> i, source |-> Checkpoint(se, sr), target |-> Checkpoint(te, "rA")] :
        i \in {0}, se \in SourceEpochChoices, sr \in Roots, te \in TargetEpochChoices }

Env(count, len, indexed) ==
    [committees_per_slot |-> count, committee_len |-> len, indexed |-> indexed]

EnvChoices ==
    { Env(Found(1), Found(1), "Ok"), Env(Found(1), Found(1), "BadSignature"),
      Env(Found(0), Found(1), "Ok"), Env(Found(1), Found(0), "Ok"),
      Env(NotFound, Found(1), "Ok"), Env(Found(1), NotFound, "Ok") }

InitAttestation ==
    /\ \E slot \in {0, start_slot(5) + 1} :
         \E cj \in [epoch : JustifiedEpochChoices, root : Roots],
            pj \in [epoch : JustifiedEpochChoices, root : Roots] :
           /\ pj.epoch <= cj.epoch
           /\ cj.epoch <= slot \div SlotsPerEpoch
           /\ state = [GenesisState(MixedAccounts(1), slot, 0)
                       EXCEPT !.current_justified_checkpoint = cj,
                              !.previous_justified_checkpoint = pj]
    /\ chain_spec = [min_slashing_penalty_quotient |-> 64]
    /\ last = NoCall
    /\ calls = 0
    /\ snapshot = state

\* The orders in which a hash set may hand out its elements.
Orders(S) ==
    {f \in [1..Cardinality(S) -> S] : \A i, j \in 1..Cardinality(S) : f[i] = f[j] => i = j}

SyncAggregate(bits, signature) == [sync_committee_bits |-> bits, signature |-> signature]

NoBits == [seat \in 0..(SyncCommitteeSize - 1) |-> FALSE]
AllBits == [seat \in 0..(SyncCommitteeSize - 1) |-> TRUE]
FirstBit == [seat \in 0..(SyncCommitteeSize - 1) |-> seat = 0]

SyncAggregateChoices ==
    { SyncAggregate(NoBits, "infinity"), SyncAggregate(NoBits, "invalid"),
      SyncAggregate(FirstBit, "valid"), SyncAggregate(AllBits, "invalid") }

\* A state of a fork before sync committees: no participation lists, no
\* sync committee.
BaseFork(s) ==
    [s EXCEPT !.fork = "Base",
              !.previous_epoch_participation = NotFound,
              !.current_epoch_participation = NotFound,
              !.current_sync_committee = NotFound]

\* The last validator attested in the previous epoch and the first in the
\* current one; the sync committee seats are held by the last validator and
\* by a key no validator holds.
WithParticipation(s) ==
    LET top == NumValidators(s) - 1 IN
    [s EXCEPT !.previous_epoch_participation = Found([i \in DOMAIN s.validators |-> IF i = top THEN 1 ELSE 0]),
              !.current_epoch_participation = Found([i \in DOMAIN s.validators |-> IF i = 0 THEN 2 ELSE 0]),
              !.current_sync_committee =
                  Found([seat \in 0..(SyncCommitteeSize - 1) |-> IF seat = 0 THEN top ELSE MaxValidators + 1])]

Init ==
    /\ \E n \in ValidatorCounts, slot \in {0, start_slot(5) + 1} :
         LET g == GenesisState(MixedAccounts(n), slot, 0) IN
         state \in {g, BaseFork(g), WithParticipation(g)}
    /\ chain_spec = [min_slashing_penalty_quotient |-> 64]
    /\ last = NoCall
    /\ calls = 0
    /\ snapshot = state

(***************************************************************************)
(* Actions.                                                                *)
(***************************************************************************)
SlashValidator ==
    \E slashed_index \in 0..MaxValidators,
       opt_whistleblower_index \in {None, Some(0)},
       cache_ok \in BOOLEAN :
      LET out == slash_validator(state, slashed_index, opt_whistleblower_index, cache_ok, chain_spec) IN
      /\ calls < MaxCalls
      /\ calls' = calls + 1
      /\ state' = out.state
      /\ last' = [op |-> "slash_validator", index |-> slashed_index,
                  whistleblower |-> opt_whistleblower_index, result |-> out.result]
      /\ UNCHANGED <<chain_spec, snapshot>>

ProcessSyncAggregate ==
    \E aggregate \in SyncAggregateChoices, verify_signatures \in BOOLEAN :
      LET out == process_sync_aggregate(state, aggregate, 0, verify_signatures) IN
      /\ calls < MaxCalls
      /\ calls' = calls + 1
      /\ state' = out.state
      /\ last' = [op |-> "process_sync_aggregate", aggregate |-> aggregate,
                  verify_signatures |-> verify_signatures, result |-> out.result]
      /\ UNCHANGED <<chain_spec, snapshot>>

ProcessRewardsAndPenalties ==
    \E order \in Orders(collect_attesting_validators(state)) :
      LET out == process_rewards_and_penalties(state, order) IN
      /\ calls < MaxCalls
      /\ calls' = calls + 1
      /\ state' = out.state
      /\ last' = [op |-> "process_rewards_and_penalties", order |-> order,
                  result |-> out.result]
      /\ UNCHANGED <<chain_spec, snapshot>>

ApplyAllRewards ==
    \E proposer_index \in {0, MaxValidators - 1, MaxValidators},
       sync_aggregate_opt \in {None, Some(SyncAggregate(FirstBit, "valid")),
                               Some(SyncAggregate(AllBits, "invalid"))},
       order \in Orders(collect_attesting_validators(state)) :
      LET out == apply_all_rewards(state, proposer_index, sync_aggregate_opt,
                                   current_epoch(state), RewardConfigDefault, order) IN
      /\ calls < MaxCalls
      /\ calls' = calls + 1
      /\ state' = out.state
      /\ last' = [op |-> "apply_all_rewards", proposer_index |-> proposer_index,
                  sync_aggregate_opt |-> sync_aggregate_opt, order |-> order,
                  result |-> out.result]
      /\ UNCHANGED <<chain_spec, snapshot>>

Next ==
    \/ SlashValidator
    \/ ProcessSyncAggregate
    \/ ProcessRewardsAndPenalties
    \/ ApplyAllRewards

Spec == Init /\ [][Next]_vars

NextSlash == SlashValidator

SpecSlash == InitSlash /\ [][NextSlash]_vars

\* The three entry points only read the state: a behaviour verifies one
\* attestation against the state it starts in.
VerifyCasperFfgVote ==
    \E data \in AttestationDataChoices, overflow_checks \in BOOLEAN :
      /\ last = NoCall
      /\ last' = [op |-> "verify_casper_ffg_vote", data |-> data,
                  overflow_checks |-> overflow_checks,
                  result |-> verify_casper_ffg_vote(data, state, overflow_checks)]
      /\ UNCHANGED <<state, chain_spec, calls, snapshot>>

VerifyAttestationForBlockInclusion ==
    \E data \in AttestationDataChoices, overflow_checks \in BOOLEAN,
       env \in {Env(Found(1), Found(1), "Ok"), Env(Found(1), Found(1), "BadSignature"),
                Env(Found(0), NotFound, "NoCommittee"),
                Env(Found(1), Found(0), "IndicesEmpty")} :
      /\ last = NoCall
      /\ last' = [op |-> "verify_attestation_for_block_inclusion", data |-> data,
                  env |-> env, overflow_checks |-> overflow_checks,
                  result |-> verify_attestation_for_block_inclusion(state, data, env, overflow_checks)]
      /\ UNCHANGED <<state, chain_spec, calls, snapshot>>

VerifyAttestationForState ==
    \E data \in AttestationDataChoices, overflow_checks \in BOOLEAN, env \in EnvChoices :
      /\ last = NoCall
      /\ last' = [op |-> "verify_attestation_for_state", data |-> data,
                  env |-> env, overflow_checks |-> overflow_checks,
                  result |-> verify_attestation_for_state(state, data, env, overflow_checks)]
      /\ UNCHANGED <<state, chain_spec, calls, snapshot>>

NextAttestation ==
    \/ VerifyCasperFfgVote
    \/ VerifyAttestationForBlockInclusion
    \/ VerifyAttestationForState

SpecAttestation == InitAttestation /\ [][NextAttestation]_vars

\* Reward amounts handed to the three apply functions: nothing, an amount
\* the percentages do not divide, the default attestation reward and the
\* largest amount there is.
RewardAmountChoices == {0, 99, 100, MaxU64}

\* The first four epochs, the last epoch of every row of the reward table,
\* the epoch after it, and the last epoch that has a successor.
EpochChoices ==
    {0, 1, 2, 3, MaxU64 - 1}
      \cup {ProposerRewardTable[r][1] + d : r \in 1..Len(ProposerRewardTable), d \in {0, 1}}

\* calculate_reward_amounts only reads its arguments: a behaviour evaluates
\* it once, before any reward is applied.
CalculateRewardAmounts ==
    \E epoch \in EpochChoices :
      /\ last = NoCall
      /\ last' = [op |-> "calculate_reward_amounts", epoch |-> epoch,
                  result |-> calculate_reward_amounts(epoch, RewardConfigDefault)]
      /\ UNCHANGED <<state, chain_spec, calls, snapshot>>

ApplyProposerReward ==
    \E proposer_index \in {0, MaxValidators}, reward_amount \in RewardAmountChoices :
      LET out == apply_proposer_reward(state, proposer_index, reward_amount) IN
      /\ calls < MaxCalls
      /\ calls' = calls + 1
      /\ state' = out.state
      /\ last' = [op |-> "apply_proposer_reward", proposer_index |-> proposer_index,
                  reward_amount |-> reward_amount, result |-> out.result]
      /\ UNCHANGED <<chain_spec, snapshot>>

ApplyAttestationRewards ==
    \E reward_amount \in RewardAmountChoices,
       order \in Orders(collect_attesting_validators(state)) :
      LET out == apply_attestation_rewards(state, reward_amount, order) IN
      /\ calls < MaxCalls
      /\ calls' = calls + 1
      /\ state' = out.state
      /\ last' = [op |-> "apply_attestation_rewards", reward_amount |-> reward_amount,
                  order |-> order, result |-> out.result]
      /\ UNCHANGED <<chain_spec, snapshot>>

ApplySyncCommitteeRewards ==
    \E bits \in {NoBits, FirstBit, AllBits}, reward_amount \in RewardAmountChoices :
      LET sync_aggregate == SyncAggregate(bits, "valid")
          out == apply_sync_committee_rewards(state, sync_aggregate, reward_amount)
      IN
      /\ calls < MaxCalls
      /\ calls' = calls + 1
      /\ state' = out.state
      /\ last' = [op |-> "apply_sync_committee_rewards", sync_aggregate |-> sync_aggregate,
                  reward_amount |-> reward_amount, result |-> out.result]
      /\ UNCHANGED <<chain_spec, snapshot>>

NextRewards ==
    \/ CalculateRewardAmounts
    \/ ApplyProposerReward
    \/ ApplyAttestationRewards
    \/ ApplySyncCommitteeRewards
    \/ ProcessRewardsAndPenalties

\* The initial states of the reward engine: as Init, over the three
\* rotations of the accounts, so that the fee-sink indices may hold the
\* largest balance and a registry may have no active validator.
InitRewards ==
    /\ \E n \in ValidatorCounts, r \in 0..2, slot \in {0, start_slot(5) + 1} :
         LET g == GenesisState(RotatedAccounts(n, r), slot, 0) IN
         state \in {g, BaseFork(g), WithParticipation(g)}
    /\ chain_spec = [min_slashing_penalty_quotient |-> 64]
    /\ last = NoCall
    /\ calls = 0
    /\ snapshot = state

SpecRewards == InitRewards /\ [][NextRewards]_vars

\* The epochs of the unit tests of validator.rs: 0, the threshold 10, its
\* neighbours, and the far-future epoch of Validator::default().
LifecycleEpochChoices == {0, 10, MaxU64}

QueryEpochChoices == {0, 9, 10, 11, MaxU64}

\* One validator, Validator::default() with any of its three lifecycle
\* epochs replaced.
InitValidator ==
    /\ \E act \in LifecycleEpochChoices, exit \in LifecycleEpochChoices,
          wd \in LifecycleEpochChoices :
         state = GenesisState([i \in {0} |-> Account(Validator(MaxU64, act, exit, wd), MaxU64)], 0, 0)
    /\ chain_spec = [min_slashing_penalty_quotient |-> 64]
    /\ last = NoCall
    /\ calls = 0
    /\ snapshot = state

\* The three predicates only read the validator: a behaviour evaluates one.
IsActiveAt ==
    \E epoch \in QueryEpochChoices :
      /\ last = NoCall
      /\ last' = [op |-> "is_active_at", epoch |-> epoch,
                  result |-> is_active_at(state.validators[0], epoch)]
      /\ UNCHANGED <<state, chain_spec, calls, snapshot>>

IsExitedAt ==
    \E epoch \in QueryEpochChoices :
      /\ last = NoCall
      /\ last' = [op |-> "is_exited_at", epoch |-> epoch,
                  result |-> is_exited_at(state.validators[0], epoch)]
      /\ UNCHANGED <<state, chain_spec, calls, snapshot>>

IsWithdrawableAt ==
    \E epoch \in QueryEpochChoices :
      /\ last = NoCall
      /\ last' = [op |-> "is_withdrawable_at", epoch |-> epoch,
                  result |-> is_withdrawable_at(state.validators[0], epoch)]
      /\ UNCHANGED <<state, chain_spec, calls, snapshot>>

NextValidator ==
    \/ IsActiveAt
    \/ IsExitedAt
    \/ IsWithdrawableAt

SpecValidator == InitValidator /\ [][NextValidator]_vars

(***************************************************************************)
(* Properties of the validator slasher.                                    *)
(***************************************************************************)
IsSlashCall(l) == l.op = "slash_validator"

\* The step is a call of slash_validator that returned Ok.
SlashSucceeds == IsSlashCall(last') /\ last'.result = "Ok"

\* C1: after slash_validator succeeded on an index, the next call on the
\* same index returns an error and leaves the validator's slashed flag,
\* withdrawable_epoch and balance and every slashings bucket as they were.
C1_SlashingIdempotency ==
    [][ (IsSlashCall(last) /\ last.result = "Ok"
           /\ IsSlashCall(last') /\ last'.index = last.index)
        => /\ last'.result # "Ok"
           /\ state'.validators[last.index].slashed = state.validators[last.index].slashed
           /\ state'.validators[last.index].withdrawable_epoch
                = state.validators[last.index].withdrawable_epoch
           /\ state'.balances[last.index] = state.balances[last.index]
           /\ state'.slashings = state.slashings ]_vars

\* A rejected call on an index whose earlier slashing went through (the
\* slashings cache recorded it).
C1_Witness ==
    /\ IsSlashCall(last)
    /\ last.result # "Ok"
    /\ last.index \in state.slashings_cache
    /\ state.validators[last.index].slashed

\* C2: over any sequence of slash_validator, process_sync_aggregate,
\* process_rewards_and_penalties and apply_all_rewards calls, no validator's
\* slashed flag goes from true to false and no withdrawable_epoch decreases.
C2_SlashedAndWithdrawableMonotonic ==
    [][ /\ DOMAIN state'.validators = DOMAIN state.validators
        /\ \A i \in DOMAIN state.validators :
             /\ state.validators[i].slashed => state'.validators[i].slashed
             /\ state'.validators[i].withdrawable_epoch
                  >= state.validators[i].withdrawable_epoch ]_vars

\* A reward pass ran after a slashing that raised a withdrawable epoch.
C2_Witness ==
    /\ last.op \in {"apply_all_rewards", "process_rewards_and_penalties"}
    /\ \E i \in DOMAIN state.validators :
         /\ state.validators[i].slashed
         /\ state.validators[i].withdrawable_epoch > snapshot.validators[i].withdrawable_epoch
         /\ state.balances[i] # snapshot.balances[i]

\* C7: a successful slash_validator lowers the validator's balance by
\* effective_balance / min_slashing_penalty_quotient (integer division, the
\* effective balance held at the call), clamped at zero; an effective
\* balance of 32_000_000_000 Gwei under quotient 64 loses 500_000_000 Gwei.
C7_SlashingPenalty ==
    [][ SlashSucceeds =>
          LET i == last'.index
              eb == state.validators[i].effective_balance
              q == chain_spec.min_slashing_penalty_quotient
              before == state.balances[i]
              after == state'.balances[i]
          IN /\ q > 0
             /\ after = (IF before >= eb \div q THEN before - (eb \div q) ELSE 0)
             /\ (eb = 32000000 /\ q = 64 /\ before >= 500000) => after = before - 500000 ]_vars

\* The 32 ETH validator slashed under quotient 64.
C7_Witness ==
    /\ IsSlashCall(last)
    /\ last.result = "Ok"
    /\ chain_spec.min_slashing_penalty_quotient = 64
    /\ state.validators[last.index].effective_balance = 32000000
    /\ snapshot.balances[last.index] = 32000000
    /\ state.balances[last.index] = 31500000

\* C8: a successful slash_validator at epoch e sets withdrawable_epoch to
\* max(previous value, e + EpochsPerSlashingsVector + 1).
C8_WithdrawableEpochExtended ==
    [][ SlashSucceeds =>
          LET i == last'.index
              floor == current_epoch(state) + EpochsPerSlashingsVector + 1
              before == state.validators[i].withdrawable_epoch
              after == state'.validators[i].withdrawable_epoch
          IN /\ after = (IF before >= floor THEN before ELSE floor)
             /\ after >= floor
             /\ after >= before ]_vars

\* A slashing that raised the withdrawable epoch to the floor.
C8_Witness ==
    /\ IsSlashCall(last)
    /\ last.result = "Ok"
    /\ state.validators[last.index].withdrawable_epoch
         = current_epoch(state) + EpochsPerSlashingsVector + 1
    /\ snapshot.validators[last.index].withdrawable_epoch
         < state.validators[last.index].withdrawable_epoch

RECURSIVE SumEffectiveBalance(_, _)
SumEffectiveBalance(validators, indices) ==
    IF indices = {} THEN 0
    ELSE LET i == CHOOSE x \in indices : TRUE IN
         validators[i].effective_balance + SumEffectiveBalance(validators, indices \ {i})

\* Every slash_validator call so far that wrote to the state returned Ok.
OnlySuccessfulSlashings ==
    \A i \in DOMAIN state.validators : state.validators[i].slashed => i \in state.slashings_cache

\* C9: a successful slash_validator at epoch e adds the validator's effective
\* balance to slashings[e mod EpochsPerSlashingsVector] and leaves the other
\* buckets alone; after successful slashings only, that bucket is its initial
\* value plus the effective balances of the validators slashed.
C9_SlashingsBucket ==
    /\ [][ SlashSucceeds =>
             LET i == last'.index
                 b == current_epoch(state) % EpochsPerSlashingsVector
             IN \A k \in DOMAIN state.slashings :
                  state'.slashings[k] =
                    (IF k = b THEN state.slashings[k] + state.validators[i].effective_balance
                     ELSE state.slashings[k]) ]_vars
    /\ [](OnlySuccessfulSlashings =>
             LET b == current_epoch(state) % EpochsPerSlashingsVector IN
             \A k \in DOMAIN state.slashings :
               state.slashings[k] =
                 (IF k = b
                  THEN snapshot.slashings[k]
                         + SumEffectiveBalance(state.validators, state.slashings_cache)
                  ELSE snapshot.slashings[k]))

\* Two successful slashings in an epoch whose bucket is not the first.
C9_Witness ==
    /\ OnlySuccessfulSlashings
    /\ Cardinality(state.slashings_cache) >= 2
    /\ current_epoch(state) % EpochsPerSlashingsVector # 0
    /\ IsSlashCall(last)
    /\ last.result = "Ok"

\* C10: slash_validator on a validator whose slashed flag is set returns the
\* dedicated already-slashed error kind.
C10_AlreadySlashedErrorKind ==
    [][ (IsSlashCall(last') /\ last'.index \in DOMAIN state.validators
           /\ state.validators[last'.index].slashed)
        => last'.result = "ValidatorAlreadySlashed" ]_vars

WhistleblowerChoices == {None} \cup {Some(w) : w \in 0..MaxValidators}

\* C11: slash_validator pays no whistleblower reward: a call changes no
\* balance but the slashed validator's own, raises no balance, and ends in
\* the same state and result whatever whistleblower (none or any index) is
\* supplied.
C11_NoWhistleblowerReward ==
    [][ IsSlashCall(last') =>
          /\ DOMAIN state'.balances = DOMAIN state.balances
          /\ \A i \in DOMAIN state.balances :
               /\ state'.balances[i] <= state.balances[i]
               /\ i # last'.index => state'.balances[i] = state.balances[i]
          /\ \A w \in WhistleblowerChoices :
               \E cache_ok \in BOOLEAN :
                 slash_validator(state, last'.index, w, cache_ok, chain_spec)
                   = Ret(state', last'.result) ]_vars

\* A slashing reported by validator 0 against another validator: the
\* offender was debited and the reporter's balance is what it was.
C11_Witness ==
    /\ IsSlashCall(last)
    /\ last.result = "Ok"
    /\ last.whistleblower = Some(0)
    /\ last.index # 0
    /\ state.balances[last.index] < snapshot.balances[last.index]
    /\ state.balances[0] = snapshot.balances[0]

(***************************************************************************)
(* Properties of the attestation validator.                                *)
(***************************************************************************)
\* The justified checkpoint the state holds for the attestation's target.
JustifiedFor(data) ==
    IF data.target.epoch = state.slot \div SlotsPerEpoch
    THEN state.current_justified_checkpoint
    ELSE state.previous_justified_checkpoint

TargetOutOfWindow(data) ==
    LET cur == state.slot \div SlotsPerEpoch IN
    /\ data.target.epoch # cur
    /\ data.target.epoch # (IF cur = 0 THEN 0 ELSE cur - 1)

\* C3: verify_attestation_for_block_inclusion rejects every attestation with
\* source.epoch > target.epoch with a source-epoch error, also when the
\* target epoch is outside the window.
C3_BlockInclusionRejectsSourceAfterTarget ==
    (last.op = "verify_attestation_for_block_inclusion"
       /\ last.data.source.epoch > last.data.target.epoch)
    => last.result = [kind |-> "SourceEpochIncorrect", source |-> last.data.source,
                      target_epoch |-> last.data.target.epoch,
                      expected_source |-> JustifiedFor(last.data)]

\* Source after target and the target outside the window: a source-epoch error.
C3_Witness ==
    /\ last.op = "verify_attestation_for_block_inclusion"
    /\ last.data.source.epoch > last.data.target.epoch
    /\ TargetOutOfWindow(last.data)
    /\ last.result.kind = "SourceEpochIncorrect"

\* C4: verify_casper_ffg_vote, and verify_attestation_for_state which relies
\* on it, rejects every attestation with source.epoch > target.epoch.
C4_FfgRejectsSourceAfterTarget ==
    (last.op \in {"verify_casper_ffg_vote", "verify_attestation_for_state"}
       /\ last.data.source.epoch > last.data.target.epoch)
    => last.result.kind # "Ok"

\* C5: verify_casper_ffg_vote accepts an attestation only if its source
\* checkpoint equals the justified checkpoint selected by the target epoch;
\* a mismatch fails with a source-epoch error carrying the expected checkpoint.
C5_CheckpointConsistency ==
    (last.op = "verify_casper_ffg_vote" /\ ~TargetOutOfWindow(last.data))
    => IF last.data.source = JustifiedFor(last.data)
       THEN last.result.kind = "Ok"
       ELSE last.result = [kind |-> "SourceEpochIncorrect", source |-> last.data.source,
                           target_epoch |-> last.data.target.epoch,
                           expected_source |-> JustifiedFor(last.data)]

\* C6: verify_casper_ffg_vote fails with a target-epoch error carrying the
\* target epoch and the current epoch whenever the target epoch is neither
\* the current nor the previous epoch.
C6_TargetEpochWindow ==
    (last.op = "verify_casper_ffg_vote" /\ TargetOutOfWindow(last.data))
    => last.result = [kind |-> "TargetEpochIncorrect",
                      target_epoch |-> last.data.target.epoch,
                      current_epoch |-> state.slot \div SlotsPerEpoch]

\* A target one epoch ahead of the state, with a source that would pass.
C6_Witness ==
    /\ last.op = "verify_casper_ffg_vote"
    /\ last.data.target.epoch = (state.slot \div SlotsPerEpoch) + 1
    /\ last.data.source = state.previous_justified_checkpoint
    /\ last.result.kind = "TargetEpochIncorrect"

(***************************************************************************)
(* Properties of the reward engine.                                        *)
(***************************************************************************)
\* C12: with the default RewardConfig, each of the three magnitudes of
\* calculate_reward_amounts (proposer, attestation, sync committee) at epoch
\* e + 1 is at most the same magnitude at epoch e.
C12_RewardPolicyMonotonic ==
    last.op = "calculate_reward_amounts" =>
      LET next == calculate_reward_amounts(last.epoch + 1, RewardConfigDefault) IN
      /\ next.proposer_reward <= last.result.proposer_reward
      /\ next.attestation_reward <= last.result.attestation_reward
      /\ next.sync_committee_reward <= last.result.sync_committee_reward

\* The last epoch of the first row of the table: the proposer reward of the
\* next epoch is strictly smaller.
C12_Witness ==
    /\ last.op = "calculate_reward_amounts"
    /\ last.epoch = 25200
    /\ last.result.proposer_reward = 2600000
    /\ calculate_reward_amounts(last.epoch + 1, RewardConfigDefault).proposer_reward = 2100000

IsSplitCall(l) ==
    l.op \in {"apply_proposer_reward", "apply_attestation_rewards", "apply_sync_committee_rewards"}

\* C13: in apply_proposer_reward, apply_attestation_rewards and
\* apply_sync_committee_rewards the validator share and the two sink shares
\* computed from a reward amount sum to exactly that amount, whether or not
\* 100 divides it.
C13_SplitConservation ==
    IsSplitCall(last) =>
      validator_share(last.reward_amount) + dev_share(last.reward_amount)
        + charity_share(last.reward_amount) = last.reward_amount

\* The validators with a non-zero participation byte for the previous or the
\* current epoch.
Flagged(s) ==
    {i \in DOMAIN s.validators :
       \/ /\ s.previous_epoch_participation.ok
          /\ i \in DOMAIN s.previous_epoch_participation.val
          /\ s.previous_epoch_participation.val[i] # 0
       \/ /\ s.current_epoch_participation.ok
          /\ i \in DOMAIN s.current_epoch_participation.val
          /\ s.current_epoch_participation.val[i] # 0}

\* The validators active at the state's current epoch.
ActiveNow(s) ==
    {i \in DOMAIN s.validators :
       /\ s.validators[i].activation_epoch <= s.slot \div SlotsPerEpoch
       /\ s.slot \div SlotsPerEpoch < s.validators[i].exit_epoch}

Elements(seq) == {seq[k] : k \in 1..Len(seq)}

\* C14: collect_attesting_validators returns, each index once, the
\* validators whose previous-epoch or current-epoch participation byte is
\* non-zero, and exactly when there is none the validators active at the
\* current epoch; with no participation at all apply_attestation_rewards
\* then credits every active validator.
C14_AttestingValidators ==
    [][ last'.op \in {"apply_attestation_rewards", "process_rewards_and_penalties"} =>
          /\ Len(last'.order) = Cardinality(Elements(last'.order))
          /\ Elements(last'.order)
               = (IF Flagged(state) # {} THEN Flagged(state) ELSE ActiveNow(state))
          /\ (last'.op = "apply_attestation_rewards" /\ last'.reward_amount > 0
                /\ Flagged(state) = {})
             => \A i \in ActiveNow(state) :
                  \/ state'.balances[i] > state.balances[i]
                  \/ state.balances[i] = MaxU64 ]_vars

\* apply_attestation_rewards on a state without any participation flag and
\* with two active validators: both were credited.
C14_Witness ==
    /\ last.op = "apply_attestation_rewards"
    /\ last.reward_amount = 100
    /\ Flagged(snapshot) = {}
    /\ Cardinality(ActiveNow(snapshot)) >= 2
    /\ Elements(last.order) = ActiveNow(snapshot)
    /\ \A i \in ActiveNow(snapshot) : state.balances[i] > snapshot.balances[i]

\* 1 when the condition holds, else 0.
Count(cond) == IF cond THEN 1 ELSE 0

Min(a, b) == IF a <= b THEN a ELSE b

\* The sync-committee seats whose bit is set in `bits` and whose public key
\* is the key of validator i; all of validator i's seats for bits = AllBits.
SeatsOf(s, i, bits) ==
    IF s.current_sync_committee.ok
    THEN {k \in DOMAIN s.current_sync_committee.val :
            /\ bits[k]
            /\ s.current_sync_committee.val[k] = s.validators[i].pubkey}
    ELSE {}

\* The seats with a set bit whose key is the key of some validator.
ResolvedSeats(s, bits) == UNION {SeatsOf(s, i, bits) : i \in DOMAIN s.validators}

\* The slots of the state's current epoch whose proposer is validator i.
SlotsProposedBy(s, i) ==
    {j \in 0..(SlotsPerEpoch - 1) :
       LET proposer == get_beacon_proposer_index(s, (s.slot \div SlotsPerEpoch) * SlotsPerEpoch + j)
       IN proposer.ok /\ proposer.val = i}

\* The balance of validator i after an epoch pass that pays the proposer
\* magnitude per proposed slot, the attestation magnitude to the attesters
\* and the sync magnitude per seat whose bit is set in `bits`.
ExpectedAfterEpochPass(s, i, attesters, bits) ==
    LET amounts == calculate_reward_amounts(s.slot \div SlotsPerEpoch, RewardConfigDefault) IN
    Min(MaxU64,
        s.balances[i]
          + Cardinality(SlotsProposedBy(s, i)) * amounts.proposer_reward
          + Count(i \in attesters) * amounts.attestation_reward
          + Cardinality(SeatsOf(s, i, bits)) * amounts.sync_committee_reward)

\* The balance of validator i after apply_all_rewards when every credit
\* whose target index resolves is applied: the 70% shares to the proposer,
\* the attesters and the holders of seats with a set bit, the 20% and 10%
\* shares of each of these rewards to the two sinks.
ExpectedAfterApplyAll(s, i, proposer_index, sync_aggregate_opt, attesters) ==
    LET amounts == calculate_reward_amounts(s.slot \div SlotsPerEpoch, RewardConfigDefault)
        p == amounts.proposer_reward
        a == amounts.attestation_reward
        y == amounts.sync_committee_reward
        n == Cardinality(attesters)
        bits == IF sync_aggregate_opt = None THEN NoBits
                ELSE (CHOOSE g \in sync_aggregate_opt : TRUE).sync_committee_bits
        m == Cardinality(ResolvedSeats(s, bits))
    IN
    Min(MaxU64,
        s.balances[i]
          + Count(i = proposer_index) * ((p * 70) \div 100)
          + Count(i \in attesters) * ((a * 70) \div 100)
          + Cardinality(SeatsOf(s, i, bits)) * ((y * 70) \div 100)
          + Count(i = 0) * (((p * 20) \div 100) + n * ((a * 20) \div 100) + m * ((y * 20) \div 100))
          + Count(i = 1) * (((p * 10) \div 100) + n * ((a * 10) \div 100) + m * ((y * 10) \div 100)))

\* C15: a reward pass pays the sync magnitude to a validator only for the
\* seats whose bit is set in the most recent sync aggregate, resolved through
\* the seat's public key: the epoch pass that follows process_sync_aggregate
\* pays by that aggregate's bits, and apply_all_rewards by the bits of the
\* aggregate it is given.
C15_SyncRewardOnlyForSetBits ==
    /\ [][ (last.op = "process_sync_aggregate" /\ last.result = "Ok"
             /\ last'.op = "process_rewards_and_penalties" /\ last'.result = "Ok")
          => \A i \in DOMAIN state.balances :
               state'.balances[i]
                 = ExpectedAfterEpochPass(state, i, Elements(last'.order),
                                          last.aggregate.sync_committee_bits) ]_vars
    /\ [][ (last'.op = "apply_all_rewards" /\ last'.proposer_index \in DOMAIN state.balances
             /\ 1 \in DOMAIN state.balances)
          => \A i \in DOMAIN state.balances :
               state'.balances[i]
                 = ExpectedAfterApplyAll(state, i, last'.proposer_index,
                                         last'.sync_aggregate_opt, Elements(last'.order)) ]_vars

(***************************************************************************)
(* Properties of the sync-committee processor.                             *)
(***************************************************************************)
IsSyncCall(l) == l.op = "process_sync_aggregate"

\* The signature set process_sync_aggregate builds for the aggregate of the
\* call, once the previous block root is at hand: ok is false when it builds
\* none.
BuiltSignatureSet(s, aggregate) ==
    IF s.slot > 0 THEN sync_aggregate_signature_set(aggregate, s) ELSE NotFound

\* C16: with signature verification requested, process_sync_aggregate
\* returns the signature-invalid error exactly when it built a signature set
\* for the aggregate and the set's verification failed; when the aggregate
\* is empty, so that there is no signature set, it returns Ok.
C16_SyncAggregateSignature ==
    [][ (IsSyncCall(last') /\ last'.verify_signatures) =>
          LET built == BuiltSignatureSet(state, last'.aggregate) IN
          /\ (last'.result = "SignatureInvalid")
               <=> (built.ok /\ built.val # None /\ last'.aggregate.signature # "valid")
          /\ (built.ok /\ built.val = None) => last'.result = "Ok"
          /\ (built.ok /\ built.val # None /\ last'.aggregate.signature = "valid")
               => last'.result = "Ok" ]_vars

\* A verified call with the empty aggregate (no bit, signature at infinity)
\* on a state past the genesis slot returned Ok.
C16_Witness ==
    /\ IsSyncCall(last)
    /\ last.verify_signatures
    /\ last.aggregate = SyncAggregate(NoBits, "infinity")
    /\ state.slot > 0
    /\ BuiltSignatureSet(state, last.aggregate) = Found(None)
    /\ last.result = "Ok"

\* C17: process_sync_aggregate on a state of a fork earlier than the one
\* that introduced sync committees fails, for every aggregate and for both
\* settings of verify_signatures: it never returns Ok on such a state.
C17_EarlierForkRejected ==
    (IsSyncCall(last) /\ state.fork = "Base") => last.result # "Ok"

\* C18: process_sync_aggregate moves no balances: whatever it returns, with
\* or without signature verification and for any bits, the balances, the
\* validator records and the participation lists are what they were.
C18_SyncAggregateMovesNoBalance ==
    [][ IsSyncCall(last') =>
          /\ state'.balances = state.balances
          /\ state'.validators = state.validators
          /\ state'.previous_epoch_participation = state.previous_epoch_participation
          /\ state'.current_epoch_participation = state.current_epoch_participation ]_vars

\* A verified aggregate with a set bit was accepted as the first call on a
\* state with a sync committee, and every balance is the initial one.
C18_Witness ==
    /\ IsSyncCall(last)
    /\ calls = 1
    /\ last.verify_signatures
    /\ last.aggregate = SyncAggregate(FirstBit, "valid")
    /\ last.result = "Ok"
    /\ state.current_sync_committee.ok
    /\ state.balances = snapshot.balances

\* C19: apply_all_rewards returns Ok for every state and proposer index, and
\* a target index that does not resolve (the proposer, a fee sink) costs
\* only its own credit: every other credit of the pass is applied.
C19_PolicyErrorsAbsorbed ==
    [][ last'.op = "apply_all_rewards" =>
          /\ last'.result = "Ok"
          /\ \A i \in DOMAIN state.balances :
               state'.balances[i]
                 = ExpectedAfterApplyAll(state, i, last'.proposer_index,
                                         last'.sync_aggregate_opt, Elements(last'.order)) ]_vars

\* C20: under the default reward configuration the proposer reward is
\* 10_000_000_000 Gwei (10_000_000 units) in epochs 0, 1 and 2, every reward
\* magnitude is zero from epoch 3 on, and the epoch pass of an epoch >= 3
\* raises no validator's balance.
C20_TenEthThenNothing ==
    /\ [](last.op = "calculate_reward_amounts" =>
            /\ last.epoch <= 2 => last.result.proposer_reward = 10000000
            /\ last.epoch >= 3 =>
                 /\ last.result.proposer_reward = 0
                 /\ last.result.attestation_reward = 0
                 /\ last.result.sync_committee_reward = 0)
    /\ [][ (last'.op = "process_rewards_and_penalties" /\ state.slot \div SlotsPerEpoch >= 3)
          => \A i \in DOMAIN state.balances : state'.balances[i] <= state.balances[i] ]_vars

\* C21: with the default RewardConfig, calculate_reward_amounts takes two
\* value triples over all epochs: the initial triple, that of epoch 0, for a
\* prefix of early epochs, and the steady-state triple, that of the last
\* epoch, for every later one.
C21_TwoRegimes ==
    last.op = "calculate_reward_amounts" =>
      last.result \in {calculate_reward_amounts(0, RewardConfigDefault),
                       calculate_reward_amounts(MaxU64, RewardConfigDefault)}

(***************************************************************************)
(* Properties of the state as a whole.                                     *)
(***************************************************************************)
\* C22: in every state reached by slash_validator, process_sync_aggregate,
\* process_rewards_and_penalties and apply_all_rewards calls, balances and
\* validators have the same indices, and index i of both is the validator
\* (public key) it was initially: nothing is inserted, removed or permuted.
C22_BalancesAlignedWithValidators ==
    /\ DOMAIN state.balances = DOMAIN state.validators
    /\ DOMAIN state.validators = DOMAIN snapshot.validators
    /\ \A i \in DOMAIN state.validators :
         state.validators[i].pubkey = snapshot.validators[i].pubkey

\* A reward pass with a proposer index beyond the registry, after another
\* call changed a balance.
C22_Witness ==
    /\ calls = 2
    /\ last.op = "apply_all_rewards"
    /\ last.proposer_index \notin DOMAIN state.validators
    /\ NumValidators(state) > 1
    /\ \E i \in DOMAIN state.validators : state.validators[i].slashed
    /\ \A i \in {0, 1} : state.balances[i] # snapshot.balances[i]

(***************************************************************************)
(* Further properties of the attestation validator.                        *)
(***************************************************************************)
\* The committee index of the attestation is not below the number of
\* committees of its slot, or the committee it names is empty.
CommitteeUnusable(data, env) ==
    /\ env.committees_per_slot.ok
    /\ \/ data.index >= env.committees_per_slot.val
       \/ env.committee_len.ok /\ env.committee_len.val = 0

\* C23: an attestation that passes the FFG check is rejected with a
\* target-epoch error by verify_attestation_for_block_inclusion and by
\* verify_attestation_for_state when its committee index is not below the
\* number of committees of its slot or its committee is empty.
C23_CommitteeChecks ==
    (/\ last.op \in {"verify_attestation_for_block_inclusion", "verify_attestation_for_state"}
     /\ last.data.source.epoch <= last.data.target.epoch
     /\ verify_casper_ffg_vote(last.data, state, last.overflow_checks) = AttOk
     /\ CommitteeUnusable(last.data, last.env))
    => last.result = [kind |-> "TargetEpochIncorrect",
                      target_epoch |-> last.data.target.epoch,
                      current_epoch |-> state.slot \div SlotsPerEpoch]

(***************************************************************************)
(* Properties of the validator record.                                     *)
(***************************************************************************)
\* C24: the lifecycle predicates are thresholds of the epoch: is_active_at(e)
\* holds exactly when activation_epoch <= e < exit_epoch, is_exited_at(e)
\* exactly when exit_epoch <= e, is_withdrawable_at(e) exactly when
\* withdrawable_epoch <= e; the default validator is unslashed and neither
\* active, exited nor withdrawable at epoch 0.
C24_LifecyclePredicates ==
    LET v == state.validators[0] IN
    /\ last.op = "is_active_at" =>
         (last.result <=> (v.activation_epoch <= last.epoch /\ last.epoch + 1 <= v.exit_epoch))
    /\ last.op = "is_exited_at" => (last.result <=> ~(last.epoch < v.exit_epoch))
    /\ last.op = "is_withdrawable_at" => (last.result <=> ~(last.epoch < v.withdrawable_epoch))
    /\ (/\ last.op \in {"is_active_at", "is_exited_at", "is_withdrawable_at"}
        /\ last.epoch = 0
        /\ v.activation_epoch = MaxU64 /\ v.exit_epoch = MaxU64 /\ v.withdrawable_epoch = MaxU64)
       => ~last.result /\ ~v.slashed

\* A validator activated at epoch 10 and exiting at epoch 10 asked at epoch
\* 10: not active.
C24_Witness ==
    /\ last.op = "is_active_at"
    /\ last.epoch = 10
    /\ state.validators[0].activation_epoch = 10
    /\ state.validators[0].exit_epoch = 10
    /\ ~last.result

(***************************************************************************)
(* Further properties of the reward engine.                                *)
(***************************************************************************)
\* C25: process_rewards_and_penalties credits the proposer magnitude once
\* for each slot of the current epoch whose proposer resolves, k times to a
\* validator proposing k slots; a slot without a proposer is skipped: the
\* call still returns Ok and the attestation and sync steps still credit.
C25_ProposerPerSlot ==
    [][ last'.op = "process_rewards_and_penalties" =>
          /\ last'.result = "Ok"
          /\ \A i \in DOMAIN state.balances :
               state'.balances[i]
                 = ExpectedAfterEpochPass(state, i, Elements(last'.order), AllBits) ]_vars

\* An epoch pass on a registry without an active validator: no slot has a
\* proposer, the call returned Ok and the attester was still credited.
C25_Witness ==
    /\ last.op = "process_rewards_and_penalties"
    /\ calls = 1
    /\ last.result = "Ok"
    /\ ActiveNow(snapshot) = {}
    /\ \A i \in DOMAIN snapshot.validators : SlotsProposedBy(snapshot, i) = {}
    /\ last.order # <<>>
    /\ state.balances[last.order[1]] > snapshot.balances[last.order[1]]

\* The state after crediting, for each validator of `rewarded` in turn, the
\* validator its 70% share and the two sinks their 20% and 10% shares, each
\* by a saturating addition of its own.
RECURSIVE CreditedSeparately(_, _, _)
CreditedSeparately(s, rewarded, reward_amount) ==
    IF rewarded = <<>> THEN s
    ELSE LET s1 == credit(s, Head(rewarded), validator_share(reward_amount))
             s2 == credit(s1, GRIDBOX_ADDRESS_INDEX, dev_share(reward_amount))
             s3 == credit(s2, MARKETING_ADDRESS_INDEX, charity_share(reward_amount))
         IN CreditedSeparately(s3, Tail(rewarded), reward_amount)

\* The validators apply_sync_committee_rewards rewards: one entry per seat
\* with a set bit whose key resolves.
RewardedSeats(s, sync_aggregate) ==
    IF s.current_sync_committee.ok
    THEN seat_indices(s, s.current_sync_committee.val,
                      seats_from(0, Cardinality(DOMAIN s.current_sync_committee.val),
                                 {k \in DOMAIN sync_aggregate.sync_committee_bits :
                                    sync_aggregate.sync_committee_bits[k]}))
    ELSE <<>>

\* C26: in apply_attestation_rewards and apply_sync_committee_rewards with
\* n rewarded validators, crediting each sink once with n times its share
\* leaves every balance as crediting the sink share once per rewarded
\* validator with saturating additions would, also when a sink is itself
\* rewarded or a balance reaches the 64-bit limit.
C26_SinkAggregation ==
    [][ /\ (last'.op = "apply_attestation_rewards" /\ last'.reward_amount > 0)
           => state'.balances
                = CreditedSeparately(state, last'.order, last'.reward_amount).balances
        /\ (last'.op = "apply_sync_committee_rewards" /\ last'.reward_amount > 0)
           => state'.balances
                = CreditedSeparately(state, RewardedSeats(state, last'.sync_aggregate),
                                     last'.reward_amount).balances ]_vars

\* Attestation rewards for two validators, the dev sink among them, on a
\* registry where the sink's balance was below the limit.
C26_Witness ==
    /\ last.op = "apply_attestation_rewards"
    /\ calls = 1
    /\ last.reward_amount = 100
    /\ last.result = "Ok"
    /\ Len(last.order) >= 2
    /\ GRIDBOX_ADDRESS_INDEX \in Elements(last.order)
    /\ state.balances[GRIDBOX_ADDRESS_INDEX]
         = snapshot.balances[GRIDBOX_ADDRESS_INDEX] + 70 + Len(last.order) * 20

(***************************************************************************)
(* The source-drift comparison of the attestation validator.               *)
(***************************************************************************)
\* C27: for a target epoch that is the state's current or previous epoch,
\* verify_casper_ffg_vote returns a source-epoch error exactly when
\* source.epoch + 2 < expected_source.epoch and accepts otherwise, whatever
\* the source root and however far source.epoch exceeds the expected epoch.
C27_SourceDriftVerdict ==
    (last.op = "verify_casper_ffg_vote" /\ ~TargetOutOfWindow(last.data))
    => IF last.data.source.epoch + 2 < JustifiedFor(last.data).epoch
       THEN last.result = [kind |-> "SourceEpochIncorrect", source |-> last.data.source,
                           target_epoch |-> last.data.target.epoch,
                           expected_source |-> JustifiedFor(last.data)]
       ELSE last.result = [kind |-> "Ok"]

(***************************************************************************)
(* Failure of the slasher.                                                 *)
(***************************************************************************)
\* C28: when slash_validator returns an error (unknown validator index,
\* already slashed, slashings-bucket overflow, epoch overflow, division
\* error, cache notification failure), the beacon state is exactly as it
\* was before the call.
C28_SlashAtomicOnFailure ==
    [][(IsSlashCall(last') /\ last'.result # "Ok") => state' = state]_vars

\* The attestation of the last call got as far as the source-drift
\* comparison of verify_casper_ffg_vote.
ReachesSourceSum ==
    /\ last.op \in {"verify_attestation_for_block_inclusion", "verify_attestation_for_state"}
    /\ ~TargetOutOfWindow(last.data)
    /\ last.op = "verify_attestation_for_block_inclusion"
          => last.data.source.epoch <= last.data.target.epoch
    /\ last.op = "verify_attestation_for_state"
          => /\ last.env.committees_per_slot.ok
             /\ last.data.index < last.env.committees_per_slot.val
             /\ last.env.committee_len.ok
             /\ last.env.committee_len.val > 0

\* C29: for every attestation that reaches the comparison through
\* verify_attestation_for_block_inclusion or verify_attestation_for_state,
\* source.epoch + 2 is computed without wrapping or aborting: the call does
\* not abort and reports a source-epoch error exactly when the exact sum is
\* below the expected source epoch.
C29_SourceSumNeverOverflows ==
    ReachesSourceSum
    => /\ last.result.kind # "Panic"
       /\ last.result.kind = "SourceEpochIncorrect"
            <=> last.data.source.epoch + 2 < JustifiedFor(last.data).epoch

(***************************************************************************)
(* Iteration order of the attesting validators.                            *)
(***************************************************************************)
IsAttestationPass(l) ==
    l.op \in {"apply_attestation_rewards", "process_rewards_and_penalties"}

\* The outcome of the last call's operation had the attesting validators
\* been visited in the order o.
OutcomeInOrder(s, l, o) ==
    IF l.op = "apply_attestation_rewards"
    THEN apply_attestation_rewards(s, l.reward_amount, o)
    ELSE process_rewards_and_penalties(s, o)

\* C30: the attestation-reward pass of process_rewards_and_penalties and of
\* apply_attestation_rewards gives the same final balances and the same
\* result for every iteration order of collect_attesting_validators, also
\* when a credit hits the 64-bit balance limit.
C30_OrderIndependent ==
    [][IsAttestationPass(last')
       => \A o \in Orders(Elements(last'.order)) :
            OutcomeInOrder(state, last', o) = Ret(state', last'.result)]_vars

\* A pass over at least two attesting validators in which one of them was
\* credited while already at the balance limit.
C30_Witness ==
    /\ IsAttestationPass(last)
    /\ last.result = "Ok"
    /\ Len(last.order) >= 2
    /\ last.op = "apply_attestation_rewards" => validator_share(last.reward_amount) > 0
    /\ \E i \in Elements(last.order) :
         /\ snapshot.balances[i] = MaxU64
         /\ state.balances[i] = MaxU64
    /\ \E j \in Elements(last.order) : state.balances[j] > snapshot.balances[j]

====
